---- MODULE Spec2Model ----
(***************************************************************************)
(* cenobite: SES compartment test runner.                                  *)
(*                                                                         *)
(* The state machines of this module, one per part of the program:         *)
(*   Spec       main (src/cli.ts) driving runTestsWithCenobiteWrappers     *)
(*              (src/wrapper-integration.ts): wrapper creation, cleanup,   *)
(*              the test stream and main's promise;                        *)
(*   SpecHooks  runTestsWithLoaderHooks: the spawned child, its events and *)
(*              the result stream;                                         *)
(*   SpecLoad   initializeSES and runTestFile: lockdown and the global     *)
(*              bindings of the compartments of each load;                 *)
(*   SpecStack  the catch block of the generated wrapper: the rewriting of *)
(*              an error's stack;                                          *)
(*   SpecLoader the load and resolve hooks of src/loader-hooks.ts;         *)
(*   SpecClassify isTestFile applied to every location of a bounded set;   *)
(*   SpecCli    main's handling of its command line, and                   *)
(*   SpecImport importHook and the execute of the record it returns.       *)
(***************************************************************************)
EXTENDS Integers, Sequences, FiniteSets, TLC

(***************************************************************************)
(* Bounds of the model.                                                    *)
(***************************************************************************)
\* longest batch of test files handed to runTestsWithCenobiteWrappers
MaxFiles == 3
\* largest value of one field of a summary's counts
MaxCount == 1
\* most events the test stream emits before it ends
MaxEvents == 2
\* longest command line main is called with
MaxArgs == 3

\* base names of the original test files (two files may share one)
BaseNames == {"a.test.js", "b.test.js"}

VARIABLES
  \* ---- runTestsWithCenobiteWrappers ----
  files,          \* options.files: the base name of each original file
  pc,             \* position in runTestsWithCenobiteWrappers
  idx,            \* index in files of the file the for loop is at
  wrapperPaths,   \* the local array wrapperPaths
  writes,         \* the two writeFile calls of the current createTestWrapper
  unlinks,        \* the unlink calls of cleanupWrappers, one per entry of allFiles
  disk,           \* the files that exist in wrapperDir
  written,        \* history: every path a writeFile of this call created
  unlinkFailed,   \* history: the paths whose unlink was rejected
  caught,         \* the error the catch block of runTestsWithCenobiteWrappers caught
  thrown,         \* the error runTestsWithCenobiteWrappers rejected with
  reporter,       \* options.reporter, once the call has read it
  composed,       \* what testStream was composed with and piped to stdout
  \* ---- main ----
  listening,      \* main has attached its 'test:summary' and 'error' handlers
  emitted,        \* number of events the test stream has emitted
  streamEnded,    \* the test stream has ended
  errorEmitted,   \* the test stream has emitted 'error'
  testFailed,     \* some summary reported a failed test
  lastSummary,    \* counts of the last summary main handled
  mainCall,       \* what main's summary handler called last
  mainPromise,    \* state of the promise main returns
  processExited,  \* process.exit(1) was called
  \* ---- runTestsWithLoaderHooks ----
  hOptions,       \* the options argument
  parentEnv,      \* process.env of the calling process
  hpc,            \* position in runTestsWithLoaderHooks and its caller
  nodeArgs,       \* the arguments the child is spawned with
  childEnv,       \* the env the child is spawned with
  spawnKind,      \* what becomes of the spawned child
  childErrorFired,\* the child's 'error' event has fired
  childExitFired, \* the child's 'exit' event has fired
  exitHandled,    \* the status the 'exit' handler received
  eventLost,      \* a child event fired while no handler was registered
  sLog,           \* the events emitted on the returned stream, in order
  sEnded,         \* stream.push(null) was called
  hCrashed,       \* an 'error' event with no listener was thrown
  childRegistered,\* the child has imported loader-hooks.js
  childOptions,   \* the module variable options of loader-hooks.js in the child
  \* ---- initializeSES and runTestFile ----
  locked,         \* lockdown has hardened the intrinsics of this process
  initCalls,      \* number of calls of initializeSES so far
  hardenings,     \* number of times the hardening was applied
  initThrew,      \* a call of initializeSES threw
  heap,           \* the properties of the global objects
  loadState,      \* each load: idle, running or done
  endowments,     \* each load: the globals option handed to importLocation
  observed,       \* each load: the last value its modules read from a global
  hostObserved,   \* the last value the host read from its own global
  \* ---- the generated wrapper ----
  sBase,          \* basename(originalTestPath), as a string of characters
  sError,         \* the error runTestFile throws in the wrapper's test
  spc,            \* position in the wrapper module
  sThrown,        \* what the wrapper's test ends up throwing
  \* ---- the loader hooks ----
  lOptions,       \* the module variable options of loader-hooks.ts
  lpc,            \* the hooks: unregistered, registered, or classifying
  lUrl,           \* the url (or specifier) of the last hook call
  lContext,       \* the context of the last hook call
  lNext,          \* what the next hook in the chain answered that call
  lCalls,         \* the calls of the next hook made during that call
  lResult,        \* what the hook returned or threw
  lMatched,       \* what isTestFile answered for lUrl
  lHooks,         \* number of {load, resolve} pairs registered with registerHooks
  lDelivered,     \* what the chain of load hooks delivered to the module loader
  \* ---- main's command line ----
  argv,           \* process.argv.slice(2)
  ciEnv,          \* process.env.CI is set
  cpc,            \* position in main
  cValues,        \* values, as parseArgs returned them
  cPositionals,   \* positionals, as parseArgs returned them
  cError,         \* the error main's promise rejected with
  cExit,          \* the code process.exit was called with
  cOptions,       \* the options handed to the test run
  cStrategy,      \* the run main started
  \* ---- importHook ----
  ipc,            \* position in importHook and in the record's execute
  iSpecifier,     \* the specifier importHook was called with
  ns,             \* the namespace import(specifier) resolved to
  iRecord,        \* the record importHook returned
  moduleExports,  \* the exports object execute was called with
  iWritten        \* the property names execute has written

wrapVars == <<files, pc, idx, wrapperPaths, writes, unlinks, disk, written,
              unlinkFailed, caught, thrown, reporter, composed>>
mainVars == <<listening, emitted, streamEnded, errorEmitted, testFailed,
              lastSummary, mainCall, mainPromise, processExited>>
hookVars == <<hOptions, parentEnv, hpc, nodeArgs, childEnv, spawnKind,
              childErrorFired, childExitFired, exitHandled, eventLost, sLog,
              sEnded, hCrashed, childRegistered, childOptions>>

loadVars == <<locked, initCalls, hardenings, initThrew, heap, loadState,
              endowments, observed, hostObserved>>

stackVars == <<sBase, sError, spc, sThrown>>

loaderVars == <<lOptions, lpc, lUrl, lContext, lNext, lCalls, lResult,
                lMatched, lHooks, lDelivered>>

cliVars == <<argv, ciEnv, cpc, cValues, cPositionals, cError, cExit, cOptions,
             cStrategy>>

importVars == <<ipc, iSpecifier, ns, iRecord, moduleExports, iWritten>>

\* what the actions of one machine leave alone
notWrap == <<hookVars, loadVars, stackVars, loaderVars, cliVars, importVars>>
notHooks == <<wrapVars, mainVars, loadVars, stackVars, loaderVars, cliVars,
              importVars>>
notLoad == <<wrapVars, mainVars, hookVars, stackVars, loaderVars, cliVars,
             importVars>>
notStack == <<wrapVars, mainVars, hookVars, loadVars, loaderVars, cliVars,
              importVars>>
notLoader == <<wrapVars, mainVars, hookVars, loadVars, stackVars, cliVars,
               importVars>>
notCli == <<wrapVars, mainVars, hookVars, loadVars, stackVars, loaderVars,
            importVars>>
notImport == <<wrapVars, mainVars, hookVars, loadVars, stackVars, loaderVars,
               cliVars>>

(***************************************************************************)
(* Paths.  wrapperName is `.cenobite-wrapper-${basename(originalTestPath)}` *)
(* inside wrapperDir, and the source map is `${wrapperPath}.map`: a path   *)
(* is determined by the base name of the original alone.                   *)
(***************************************************************************)
WrapperPath(base) == <<".cenobite-wrapper-", base>>
SourceMapPath(wrapperPath) == Append(wrapperPath, ".map")

\* every sequence over S of length 1..n
SeqsUpTo(S, n) == UNION {[1..k -> S] : k \in 1..n}

RECURSIVE FlatMapPaths(_)
\* wrapperPaths.flatMap((path) => [path, `${path}.map`])
FlatMapPaths(paths) ==
  IF paths = <<>> THEN <<>>
  ELSE <<Head(paths), SourceMapPath(Head(paths))>> \o FlatMapPaths(Tail(paths))

\* faulty variant: cleanup forgets the source maps
AllFilesNoMaps(paths) == paths

\* allFiles of cleanupWrappers
AllFiles(paths) == FlatMapPaths(paths)

NoWrites == [wrapper |-> "none", map |-> "none"]

\* errors: the rejection of a writeFile or of an unlink, by the path it was
\* called with
NoErr == [op |-> "none", path |-> <<>>]
WriteFileError(path) == [op |-> "writeFile", path |-> path]
UnlinkError(path) == [op |-> "unlink", path |-> path]

\* faulty variant: the callback lets the rejection of its unlink through
UnlinkCallbackRethrows(result) ==
  IF result = "failed" THEN "rejected" ELSE "fulfilled"

\* the async callback cleanupWrappers maps over allFiles,
\* `try { await unlink(path) } catch {}`: how its promise settles once its
\* unlink has settled with result
UnlinkCallback(result) == "fulfilled"

\* the path each of the two writeFile calls of createTestWrapper writes
WriteTarget(base, which) ==
  IF which = "wrapper" THEN WrapperPath(base)
  ELSE SourceMapPath(WrapperPath(base))

(***************************************************************************)
(* The reporters.  reporterMap is the object literal {dot, junit, spec,    *)
(* tap}: a property read on it finds its own keys and, through its         *)
(* prototype, the properties of Object.prototype.                          *)
(***************************************************************************)
ReporterMap == {"dot", "junit", "spec", "tap"}

\* a property every object literal inherits
ObjectPrototype == {"toString"}

\* values of options.reporter: the four reporters, a name that is no
\* property at all, an inherited property name, the empty string and
\* undefined
ReporterNames == ReporterMap \cup ObjectPrototype \cup {"xunit", "", "undefined"}

\* reporterMap[options.reporter]: the value found, by the name of the function
ReporterLookup(name) ==
  IF name \in ReporterMap THEN name
  ELSE IF name \in ObjectPrototype THEN "Object.prototype.toString"
  ELSE "undefined"

(***************************************************************************)
(* Summary counts and main's arithmetic.                                   *)
(***************************************************************************)
Counts == [tests : 0..MaxCount, passed : 0..MaxCount, skipped : 0..MaxCount,
           cancelled : 0..MaxCount, todo : 0..MaxCount]

NoSummary == [tests |-> -1, passed |-> 0, skipped |-> 0, cancelled |-> 0,
              todo |-> 0]

\* faulty variant: todo tests are not subtracted
FailedIgnoringTodo(counts) ==
  counts.tests - counts.passed - counts.skipped - counts.cancelled

\* failed, as main's 'test:summary' handler computes it
Failed(counts) ==
  counts.tests - counts.passed - counts.skipped - counts.cancelled - counts.todo

(***************************************************************************)
(* Initial state: runTestsWithCenobiteWrappers is called by main with a    *)
(* non-empty list of files (main exits when there are no positionals), the *)
(* wrapper directory holds nothing.                                        *)
(***************************************************************************)
InitWrap ==
  /\ files \in SeqsUpTo(BaseNames, MaxFiles)
  /\ pc = "loop"
  /\ idx = 1
  /\ wrapperPaths = <<>>
  /\ writes = NoWrites
  /\ unlinks = <<>>
  /\ disk = {}
  /\ written = {}
  /\ unlinkFailed = {}
  /\ caught = NoErr
  /\ thrown = NoErr
  /\ reporter = "unread"
  /\ composed = "none"

InitMain ==
  /\ listening = FALSE
  /\ emitted = 0
  /\ streamEnded = FALSE
  /\ errorEmitted = FALSE
  /\ testFailed = FALSE
  /\ lastSummary = NoSummary
  /\ mainCall = "none"
  /\ mainPromise = "pending"
  /\ processExited = FALSE

(***************************************************************************)
(* createTestWrapper: both writeFile calls are issued together and awaited *)
(* with Promise.all.                                                       *)
(***************************************************************************)
CreateTestWrapper ==
  /\ UNCHANGED notWrap
  /\ pc = "loop"
  /\ idx <= Len(files)
  /\ writes' = [wrapper |-> "pending", map |-> "pending"]
  /\ pc' = "writing"
  /\ UNCHANGED <<files, idx, wrapperPaths, unlinks, disk, written, unlinkFailed,
                 caught, thrown,
                 reporter, composed>>
  /\ UNCHANGED mainVars

\* a writeFile call is fulfilled: the file exists
WriteFileOk(which) ==
  /\ UNCHANGED notWrap
  /\ writes[which] = "pending"
  /\ writes' = [writes EXCEPT ![which] = "ok"]
  /\ disk' = disk \cup {WriteTarget(files[idx], which)}
  /\ written' = written \cup {WriteTarget(files[idx], which)}
  /\ UNCHANGED <<files, pc, idx, wrapperPaths, unlinks, unlinkFailed, caught,
                 thrown,
                 reporter, composed>>
  /\ UNCHANGED mainVars

\* a writeFile call is rejected (the file could not be opened): nothing is
\* created
WriteFileFail(which) ==
  /\ UNCHANGED notWrap
  /\ writes[which] = "pending"
  /\ writes' = [writes EXCEPT ![which] = "failed"]
  /\ UNCHANGED <<files, pc, idx, wrapperPaths, unlinks, disk, written,
                 unlinkFailed, caught, thrown,
                 reporter, composed>>
  /\ UNCHANGED mainVars

\* Promise.all is fulfilled: createTestWrapper returns wrapperPath, the loop
\* pushes it and moves on
WrapperCreated ==
  /\ UNCHANGED notWrap
  /\ pc = "writing"
  /\ writes.wrapper = "ok" /\ writes.map = "ok"
  /\ wrapperPaths' = Append(wrapperPaths, WrapperPath(files[idx]))
  /\ idx' = idx + 1
  /\ writes' = NoWrites
  /\ pc' = "loop"
  /\ UNCHANGED <<files, unlinks, disk, written, unlinkFailed, caught, thrown,
                 reporter, composed>>
  /\ UNCHANGED mainVars

\* Promise.all is rejected as soon as one write is (the other may still be
\* pending), with that write's error: the catch block catches it and starts
\* cleanupWrappers(wrapperPaths), which issues every unlink at once
WrapperFailed ==
  /\ UNCHANGED notWrap
  /\ pc = "writing"
  /\ \E which \in {"wrapper", "map"} :
       /\ writes[which] = "failed"
       /\ caught' = WriteFileError(WriteTarget(files[idx], which))
  /\ unlinks' = [j \in 1..Len(AllFiles(wrapperPaths)) |-> "pending"]
  /\ pc' = "cleanup"
  /\ UNCHANGED <<files, idx, wrapperPaths, writes, disk, written, unlinkFailed,
                 thrown,
                 reporter, composed>>
  /\ UNCHANGED mainVars

\* one unlink of cleanupWrappers settles.  A missing file makes it fail
\* (ENOENT); an existing one is removed, or the unlink fails and leaves it.
\* Either way the rejection is swallowed by the empty catch.
Unlink(j) ==
  /\ UNCHANGED notWrap
  /\ pc = "cleanup"
  /\ j \in DOMAIN unlinks
  /\ unlinks[j] = "pending"
  /\ LET path == AllFiles(wrapperPaths)[j] IN
       \/ /\ path \in disk
          /\ disk' = disk \ {path}
          /\ unlinks' = [unlinks EXCEPT ![j] = "ok"]
          /\ UNCHANGED unlinkFailed
       \/ /\ unlinks' = [unlinks EXCEPT ![j] = "failed"]
          /\ unlinkFailed' = unlinkFailed \cup {path}
          /\ UNCHANGED disk
  /\ UNCHANGED <<files, pc, idx, wrapperPaths, writes, written, caught, thrown,
                 reporter, composed>>
  /\ UNCHANGED mainVars

\* the Promise.all of cleanupWrappers settles: rejected as soon as one
\* callback is, fulfilled once every callback is.  When it is fulfilled the
\* catch block rethrows what it caught; were it rejected, `await
\* cleanupWrappers` would throw that rejection instead.  Either way `await
\* runTestsWithCenobiteWrappers` throws in main, whose promise is rejected.
CleanupDone ==
  /\ UNCHANGED notWrap
  /\ pc = "cleanup"
  /\ LET settled == {j \in DOMAIN unlinks : unlinks[j] # "pending"}
         rejected == {j \in settled : UnlinkCallback(unlinks[j]) = "rejected"}
     IN IF rejected # {}
        THEN \E j \in rejected :
               thrown' = UnlinkError(AllFiles(wrapperPaths)[j])
        ELSE /\ settled = DOMAIN unlinks
             /\ thrown' = caught
  /\ pc' = "rejected"
  /\ mainPromise' = "rejected"
  /\ UNCHANGED <<files, idx, wrapperPaths, writes, unlinks, disk, written,
                 unlinkFailed, caught,
                 reporter, composed>>
  /\ UNCHANGED <<listening, emitted, streamEnded, errorEmitted, testFailed,
                 lastSummary, mainCall, processExited>>

\* every wrapper was created: run({files: wrapperPaths}), compose testStream
\* with the reporter found under options.reporter (read here and nowhere
\* else, so the value is drawn here) and return testStream;
\* main attaches its handlers in the continuation of the await
RunTests ==
  /\ UNCHANGED notWrap
  /\ pc = "loop"
  /\ idx > Len(files)
  /\ \E name \in ReporterNames :
       /\ reporter' = name
       /\ composed' = IF name \notin {"undefined", ""}
                         /\ ReporterLookup(name) # "undefined"
                      THEN ReporterLookup(name)
                      ELSE "none"
  /\ pc' = "returned"
  /\ listening' = TRUE
  /\ UNCHANGED <<files, idx, wrapperPaths, writes, unlinks, disk, written,
                 unlinkFailed, caught, thrown>>
  /\ UNCHANGED <<emitted, streamEnded, errorEmitted, testFailed, lastSummary,
                 mainCall, mainPromise, processExited>>

(***************************************************************************)
(* main's handlers.  The test stream is node:test's: with isolation        *)
(* 'process' it emits one summary per file and a cumulative one, so the    *)
(* handlers may run more than once.                                        *)
(***************************************************************************)
StreamSummary(counts) ==
  /\ UNCHANGED notWrap
  /\ listening /\ ~streamEnded /\ ~processExited
  /\ emitted < MaxEvents
  /\ emitted' = emitted + 1
  /\ lastSummary' = counts
  /\ testFailed' = (testFailed \/ Failed(counts) > 0)
  /\ IF Failed(counts) > 0
     THEN /\ processExited' = TRUE
          /\ mainCall' = "exit"
          /\ UNCHANGED mainPromise
     ELSE /\ mainCall' = "resolve"
          /\ mainPromise' = IF mainPromise = "pending" THEN "resolved"
                            ELSE mainPromise
          /\ UNCHANGED processExited
  /\ UNCHANGED wrapVars
  /\ UNCHANGED <<listening, streamEnded, errorEmitted>>

\* testStream.on('error', reject)
StreamError ==
  /\ UNCHANGED notWrap
  /\ listening /\ ~streamEnded /\ ~processExited
  /\ emitted < MaxEvents
  /\ emitted' = emitted + 1
  /\ errorEmitted' = TRUE
  /\ mainPromise' = IF mainPromise = "pending" THEN "rejected" ELSE mainPromise
  /\ UNCHANGED wrapVars
  /\ UNCHANGED <<listening, streamEnded, testFailed, lastSummary, mainCall,
                 processExited>>

StreamEnd ==
  /\ UNCHANGED notWrap
  /\ listening /\ ~streamEnded /\ ~processExited
  /\ emitted >= 1
  /\ streamEnded' = TRUE
  /\ UNCHANGED wrapVars
  /\ UNCHANGED <<listening, emitted, errorEmitted, testFailed, lastSummary,
                 mainCall, mainPromise, processExited>>

(***************************************************************************)
(* The options of the loader hooks (src/loader-hooks.ts), which the child  *)
(* of runTestsWithLoaderHooks configures from its environment.  An options *)
(* object is a function from its keys; lockdownOptions is a sequence of    *)
(* <<key, value>> pairs in insertion order.                                *)
(***************************************************************************)
\* a regular expression without quantifiers: a set of alternatives, each a
\* sequence of sets of tokens (a group of words or a character class)
\* /\.(test|spec)\.|[/\\]test[/\\]/
DefaultTestFilePattern ==
  { << {"."}, {"test", "spec"}, {"."} >>,
    << {"/", "\\"}, {"test"}, {"/", "\\"} >> }

DefaultLockdownOptions ==
  << <<"errorTaming", "unsafe">>, <<"evalTaming", "unsafe">>,
     <<"overrideTaming", "severe">>, <<"stackFiltering", "verbose">> >>

defaultOptions ==
  [debug |-> FALSE,
   lockdownOptions |-> DefaultLockdownOptions,
   testFilePattern |-> DefaultTestFilePattern,
   useCompartmentMapper |-> FALSE]

\* { ...defaultOptions, ...userOptions }
ConfigureLoaderHooks(userOptions) ==
  [k \in DOMAIN defaultOptions |->
     IF k \in DOMAIN userOptions THEN userOptions[k] ELSE defaultOptions[k]]

\* the userOptions of the call the module makes when it is imported:
\* {debug: process.env.CENOBITE_DEBUG === '1',
\*  useCompartmentMapper: process.env.CENOBITE_USE_COMPARTMENT_MAPPER === '1'}
AutoRegisterOptions(env) ==
  [debug |-> env.CENOBITE_DEBUG = "1",
   useCompartmentMapper |-> env.CENOBITE_USE_COMPARTMENT_MAPPER = "1"]

(***************************************************************************)
(* runTestsWithLoaderHooks: out-of-process mode.                           *)
(***************************************************************************)
\* largest exit code of the child
MaxExitCode == 2

\* the status the 'exit' handler receives: a code, or null when the child
\* was killed by a signal
ExitStatuses ==
  [isNull : {FALSE}, code : 0..MaxExitCode] \cup {[isNull |-> TRUE, code |-> 0]}

HookOptions ==
  [enableSourceMaps : BOOLEAN, reporter : {"undefined", "tap"},
   useCompartmentMapper : {"undefined", "false", "true"}, verbose : BOOLEAN,
   files : {<<"a.test.js">>}]

ParentEnvs ==
  [CENOBITE_DEBUG : {"unset", "0", "1"},
   CENOBITE_USE_COMPARTMENT_MAPPER : {"unset", "1"}]

\* the destructuring defaults: reporter = 'spec', useCompartmentMapper = false
ReporterOf(options) ==
  IF options.reporter = "undefined" THEN "spec" ELSE options.reporter
UseCompartmentMapperOf(options) == options.useCompartmentMapper = "true"

\* nodeArgs as built before the spawn
NodeArgs(options) ==
  <<"--import", "file://loader-hooks.js">>
  \o (IF options.enableSourceMaps THEN <<"--enable-source-maps">> ELSE <<>>)
  \o <<"--test", <<"--test-reporter=", ReporterOf(options)>>>>
  \o options.files

\* faulty variant: a flag is set only when its option is on, and is
\* otherwise left as the parent has it
ChildEnvInherits(env, options) ==
  [CENOBITE_DEBUG |-> IF options.verbose THEN "1" ELSE env.CENOBITE_DEBUG,
   CENOBITE_USE_COMPARTMENT_MAPPER |->
     IF options.useCompartmentMapper = "true" THEN "1"
     ELSE env.CENOBITE_USE_COMPARTMENT_MAPPER]

\* env: process.env with the two flags overridden
ChildEnv(env, options) ==
  [CENOBITE_DEBUG |-> IF options.verbose THEN "1" ELSE "0",
   CENOBITE_USE_COMPARTMENT_MAPPER |->
     IF UseCompartmentMapperOf(options) THEN "1" ELSE "0"]

\* the fake summary the 'exit' handler emits
FakeSummary ==
  [type |-> "test:summary",
   counts |-> [tests |-> 1, passed |-> 1, skipped |-> 0, cancelled |-> 0,
               todo |-> 0]]
ErrorEvent == [type |-> "error", counts |-> NoSummary]

NotExited == [isNull |-> TRUE, code |-> -1]

\* faulty variant: `if (code)`, which takes null for success
ExitFailedTruthy(status) == ~status.isNull /\ status.code # 0

\* code !== 0
ExitFailed(status) == status.isNull \/ status.code # 0

\* the returned stream has an 'error' listener once the caller has attached it
StreamHasErrorListener == hpc = "listening"
\* the child has its 'exit' and 'error' handlers once the await has resumed
ChildHandlersAttached == hpc \in {"attached", "listening"}

IdleHooks ==
  /\ hOptions = [enableSourceMaps |-> TRUE, reporter |-> "undefined",
                 useCompartmentMapper |-> "undefined", verbose |-> FALSE,
                 files |-> <<"a.test.js">>]
  /\ parentEnv = [CENOBITE_DEBUG |-> "unset",
                  CENOBITE_USE_COMPARTMENT_MAPPER |-> "unset"]
  /\ hpc = "idle"
  /\ nodeArgs = <<>>
  /\ childEnv = parentEnv
  /\ spawnKind = "none"
  /\ childErrorFired = FALSE
  /\ childExitFired = FALSE
  /\ exitHandled = NotExited
  /\ eventLost = FALSE
  /\ sLog = <<>>
  /\ sEnded = FALSE
  /\ hCrashed = FALSE
  /\ childRegistered = FALSE
  /\ childOptions = defaultOptions

InitHooks ==
  /\ hOptions \in HookOptions
  /\ parentEnv \in ParentEnvs
  /\ hpc = "start"
  /\ nodeArgs = <<>>
  /\ childEnv = parentEnv
  /\ spawnKind = "none"
  /\ childErrorFired = FALSE
  /\ childExitFired = FALSE
  /\ exitHandled = NotExited
  /\ eventLost = FALSE
  /\ sLog = <<>>
  /\ sEnded = FALSE
  /\ hCrashed = FALSE
  /\ childRegistered = FALSE
  /\ childOptions = defaultOptions

\* spawn('node', nodeArgs, {env, stdio}).  The child runs and exits
\* ("runs"), cannot be spawned, which fires 'error' alone ("fails"), or fires
\* 'error' and later 'exit' (node: "the 'exit' event may or may not fire after
\* an error has occurred")
Spawn ==
  /\ UNCHANGED notHooks
  /\ hpc = "start"
  /\ nodeArgs' = NodeArgs(hOptions)
  /\ childEnv' = ChildEnv(parentEnv, hOptions)
  /\ spawnKind' \in {"runs", "fails", "failsThenExits"}
  /\ hpc' = "spawned"
  /\ UNCHANGED <<childRegistered, childOptions>>
  /\ UNCHANGED <<hOptions, parentEnv, childErrorFired, childExitFired,
                 exitHandled, eventLost, sLog, sEnded, hCrashed>>

\* `await import('node:stream')` resumes: the stream is created, the two
\* handlers are registered on the child and the stream is returned
AttachHandlers ==
  /\ UNCHANGED notHooks
  /\ hpc = "spawned" /\ ~hCrashed
  /\ hpc' = "attached"
  /\ UNCHANGED <<childRegistered, childOptions>>
  /\ UNCHANGED <<hOptions, parentEnv, nodeArgs, childEnv, spawnKind,
                 childErrorFired, childExitFired, exitHandled, eventLost,
                 sLog, sEnded, hCrashed>>

\* the caller's await resumes and it attaches its listeners to the stream
CallerListens ==
  /\ UNCHANGED notHooks
  /\ hpc = "attached" /\ ~hCrashed
  /\ hpc' = "listening"
  /\ UNCHANGED <<childRegistered, childOptions>>
  /\ UNCHANGED <<hOptions, parentEnv, nodeArgs, childEnv, spawnKind,
                 childErrorFired, childExitFired, exitHandled, eventLost,
                 sLog, sEnded, hCrashed>>

\* the child's 'exit' event.  Registered handler: emit 'error' when
\* code !== 0, else the fake summary, then stream.push(null).  An 'error'
\* emitted on a stream without an 'error' listener is thrown by emit: the
\* handler is left before push(null) and the exception is uncaught.
ChildExit(status) ==
  /\ UNCHANGED notHooks
  /\ hpc \in {"spawned", "attached", "listening"} /\ ~hCrashed
  /\ ~childExitFired
  /\ \/ spawnKind = "runs"
     \/ spawnKind = "failsThenExits" /\ childErrorFired /\ ExitFailed(status)
  /\ childExitFired' = TRUE
  /\ IF ChildHandlersAttached
     THEN /\ exitHandled' = status
          /\ IF ExitFailed(status)
             THEN /\ sLog' = Append(sLog, ErrorEvent)
                  /\ IF StreamHasErrorListener
                     THEN sEnded' = TRUE /\ UNCHANGED hCrashed
                     ELSE hCrashed' = TRUE /\ UNCHANGED sEnded
             ELSE /\ sLog' = Append(sLog, FakeSummary)
                  /\ sEnded' = TRUE
                  /\ UNCHANGED hCrashed
          /\ UNCHANGED eventLost
     ELSE /\ eventLost' = TRUE
          /\ UNCHANGED <<exitHandled, sLog, sEnded, hCrashed>>
  /\ UNCHANGED <<childRegistered, childOptions>>
  /\ UNCHANGED <<hOptions, parentEnv, hpc, nodeArgs, childEnv, spawnKind,
                 childErrorFired>>

\* the child's 'error' event (the spawn failed).  Registered handler:
\* stream.emit('error', error), nothing else.  With no handler registered on
\* the child the event itself is thrown.
ChildError ==
  /\ UNCHANGED notHooks
  /\ hpc \in {"spawned", "attached", "listening"} /\ ~hCrashed
  /\ spawnKind \in {"fails", "failsThenExits"}
  /\ ~childErrorFired
  /\ childErrorFired' = TRUE
  /\ IF ChildHandlersAttached
     THEN /\ sLog' = Append(sLog, ErrorEvent)
          /\ hCrashed' = ~StreamHasErrorListener
          /\ UNCHANGED eventLost
     ELSE /\ eventLost' = TRUE
          /\ hCrashed' = TRUE
          /\ UNCHANGED sLog
  /\ UNCHANGED <<childRegistered, childOptions>>
  /\ UNCHANGED <<hOptions, parentEnv, hpc, nodeArgs, childEnv, spawnKind,
                 childExitFired, exitHandled, sEnded>>


(***************************************************************************)
(* initializeSES and runTestFile.                                          *)
(***************************************************************************)
\* most calls of initializeSES in one process
MaxInitCalls == 2
\* most loads (calls of runTestFile) in one process
MaxLoads == 2

Loads == 1..MaxLoads

\* the global objects: the host's globalThis and the global object each
\* load's compartment is constructed with
HostGlobal == [kind |-> "host", load |-> 0]
CompartmentGlobal(l) == [kind |-> "compartment", load |-> l]
GlobalObjects == {HostGlobal} \cup {CompartmentGlobal(l) : l \in Loads}

\* the value of the property testValue of a global object: undefined, or
\* the value a module of load `by` assigned
Undefined == [by |-> 0]
ValueOf(l) == [by |-> l]
NotObserved == [by |-> -1]

\* options.globals of runTestFile
UserGlobals == {<<>>, [customGlobal |-> "value"]}

\* the globals option of importLocation:
\* {console: harden(console), Date: harden(originalDate), globalThis, ...globals}
\* where globalThis is the host's
Globals(globals) ==
  [name \in {"console", "Date", "globalThis"} \cup DOMAIN globals |->
     IF name \in DOMAIN globals THEN globals[name]
     ELSE IF name = "console" THEN "harden(console)"
     ELSE IF name = "Date" THEN "harden(originalDate)"
     ELSE "host globalThis"]

\* what the identifier globalThis denotes in the modules of load l: the
\* globals are assigned onto the compartment's global object, so an endowed
\* globalThis replaces the compartment's own
GlobalThisOf(l) ==
  IF "globalThis" \in DOMAIN endowments[l]
     /\ endowments[l]["globalThis"] = "host globalThis"
  THEN HostGlobal
  ELSE CompartmentGlobal(l)

IdleLoad ==
  /\ locked = FALSE
  /\ initCalls = 0
  /\ hardenings = 0
  /\ initThrew = FALSE
  /\ heap = [o \in GlobalObjects |-> Undefined]
  /\ loadState = [l \in Loads |-> "idle"]
  /\ endowments = [l \in Loads |-> <<>>]
  /\ observed = [l \in Loads |-> NotObserved]
  /\ hostObserved = NotObserved

\* initializeSES: lockdown({...}), unguarded.  lockdown hardens the
\* intrinsics the first time and throws when the process is locked down
\* already.
InitializeSES ==
  /\ UNCHANGED notLoad
  /\ initCalls < MaxInitCalls
  /\ initCalls' = initCalls + 1
  /\ IF locked
     THEN /\ initThrew' = TRUE
          /\ UNCHANGED <<locked, hardenings>>
     ELSE /\ locked' = TRUE
          /\ hardenings' = hardenings + 1
          /\ UNCHANGED initThrew
  /\ UNCHANGED <<heap, loadState, endowments, observed, hostObserved>>

\* runTestFile(testFilePath, {globals}): importLocation(read, testFileUrl,
\* {globals: {...}, importHook, modules}) in a locked-down process
RunTestFile(l, globals) ==
  /\ UNCHANGED notLoad
  /\ locked
  /\ loadState[l] = "idle"
  /\ loadState' = [loadState EXCEPT ![l] = "running"]
  /\ endowments' = [endowments EXCEPT ![l] = Globals(globals)]
  /\ UNCHANGED <<locked, initCalls, hardenings, initThrew, heap, observed,
                 hostObserved>>

\* a module of load l evaluates `globalThis.testValue = ...`
\* (lockdown does not freeze the global object itself)
ModuleWritesGlobal(l) ==
  /\ UNCHANGED notLoad
  /\ loadState[l] = "running"
  /\ heap' = [heap EXCEPT ![GlobalThisOf(l)] = ValueOf(l)]
  /\ UNCHANGED <<locked, initCalls, hardenings, initThrew, loadState,
                 endowments, observed, hostObserved>>

\* a module of load l evaluates `globalThis.testValue`
ModuleReadsGlobal(l) ==
  /\ UNCHANGED notLoad
  /\ loadState[l] = "running"
  /\ observed' = [observed EXCEPT ![l] = heap[GlobalThisOf(l)]]
  /\ UNCHANGED <<locked, initCalls, hardenings, initThrew, heap, loadState,
                 endowments, hostObserved>>

\* importLocation is fulfilled and runTestFile returns its result
LoadDone(l) ==
  /\ UNCHANGED notLoad
  /\ loadState[l] = "running"
  /\ loadState' = [loadState EXCEPT ![l] = "done"]
  /\ UNCHANGED <<locked, initCalls, hardenings, initThrew, heap, endowments,
                 observed, hostObserved>>

\* the host (the caller of runTestFile) reads globalThis.testValue
HostReadsGlobal ==
  /\ UNCHANGED notLoad
  /\ hostObserved' = heap[HostGlobal]
  /\ UNCHANGED <<locked, initCalls, hardenings, initThrew, heap, loadState,
                 endowments, observed>>

NextLoad ==
  \/ InitializeSES
  \/ \E l \in Loads, globals \in UserGlobals : RunTestFile(l, globals)
  \/ \E l \in Loads : ModuleWritesGlobal(l)
  \/ \E l \in Loads : ModuleReadsGlobal(l)
  \/ \E l \in Loads : LoadDone(l)
  \/ HostReadsGlobal

(***************************************************************************)
(* The wrapper module createTestWrapper generates (wrapperContent), and    *)
(* the catch block of its test.  Paths and stacks are strings of           *)
(* characters; ".c-" stands for ".cenobite-wrapper-".                      *)
(***************************************************************************)
\* longest base name of an original test file, in characters
MaxBaseLen == 3
\* most frames of an error's stack
MaxFrames == 2

\* the characters of a base name: a letter, a RegExp quantifier, a quote
BaseChars == {"a", "+", "'"}

\* wrapperPath = join(wrapperDir, `.cenobite-wrapper-${basename}`)
WrapperPathChars(base) == <<"/", "w", "/", ".", "c", "-">> \o base
\* originalAbsolute = resolve(originalTestPath)
OriginalAbsolute(base) == <<"/", "o", "/">> \o base

\* s occurs in text at position i
OccursAt(s, text, i) ==
  /\ i + Len(s) - 1 <= Len(text)
  /\ SubSeq(text, i, i + Len(s) - 1) = s
Contains(text, s) == \E i \in 1..Len(text) : OccursAt(s, text, i)

\* the wrapper splices both paths and the base name between single quotes
\* (only backslashes are escaped): a quote in them ends the literal early and
\* the module is not a program
WrapperParses(base) ==
  ~Contains(WrapperPathChars(base) \o OriginalAbsolute(base), <<"'">>)

RECURSIVE ParseAtoms(_, _, _)
\* new RegExp(source, 'g'): the atoms of source, or a SyntaxError ("nothing
\* to repeat") for a + that follows no atom or follows another +
ParseAtoms(source, i, acc) ==
  IF i > Len(source) THEN [ok |-> TRUE, atoms |-> acc]
  ELSE IF source[i] = "+"
       THEN IF acc = <<>> \/ acc[Len(acc)].plus
            THEN [ok |-> FALSE, atoms |-> <<>>]
            ELSE ParseAtoms(source, i + 1,
                            [acc EXCEPT ![Len(acc)].plus = TRUE])
       ELSE ParseAtoms(source, i + 1,
                       Append(acc, [ch |-> source[i], plus |-> FALSE]))
RegExpOf(source) == ParseAtoms(source, 1, <<>>)

\* an atom matches one character: . matches any but a line terminator
AtomMatches(atom, c) == IF atom.ch = "." THEN c # "\n" ELSE c = atom.ch

RECURSIVE RunLength(_, _, _)
\* how many characters from position i on match the atom
RunLength(atom, text, i) ==
  IF i <= Len(text) /\ AtomMatches(atom, text[i])
  THEN 1 + RunLength(atom, text, i + 1) ELSE 0

RECURSIVE MatchFrom(_, _, _, _)
RECURSIVE TryRun(_, _, _, _, _)
\* the position after the match of atoms k.. at position i, 0 when there is
\* none; + is greedy and backtracks
MatchFrom(atoms, k, text, i) ==
  IF k > Len(atoms) THEN i
  ELSE IF atoms[k].plus
       THEN TryRun(atoms, k, text, i, RunLength(atoms[k], text, i))
       ELSE IF i <= Len(text) /\ AtomMatches(atoms[k], text[i])
            THEN MatchFrom(atoms, k + 1, text, i + 1)
            ELSE 0
TryRun(atoms, k, text, i, t) ==
  IF t < 1 THEN 0
  ELSE LET rest == MatchFrom(atoms, k + 1, text, i + t)
       IN IF rest # 0 THEN rest ELSE TryRun(atoms, k, text, i, t - 1)

RECURSIVE RegExpReplaceFrom(_, _, _, _)
\* text.replace(regexp, replacement) with the g flag, from position i
RegExpReplaceFrom(text, atoms, replacement, i) ==
  IF i > Len(text) THEN <<>>
  ELSE LET after == MatchFrom(atoms, 1, text, i)
       IN IF after > i
          THEN replacement \o RegExpReplaceFrom(text, atoms, replacement, after)
          ELSE <<text[i]>> \o RegExpReplaceFrom(text, atoms, replacement, i + 1)

RECURSIVE LiteralReplaceFrom(_, _, _, _)
\* every occurrence of the string s in text replaced, from position i
LiteralReplaceFrom(text, s, replacement, i) ==
  IF i > Len(text) THEN <<>>
  ELSE IF OccursAt(s, text, i)
       THEN replacement \o LiteralReplaceFrom(text, s, replacement, i + Len(s))
       ELSE <<text[i]>> \o LiteralReplaceFrom(text, s, replacement, i + 1)

\* the frames a stack may hold: the wrapper's path, the original's path, a
\* path that differs from the wrapper's only where that has a dot, and a
\* frame foreign to both
DotsReplaced(path) == [i \in DOMAIN path |-> IF path[i] = "." THEN "x" ELSE path[i]]
Frames(base) ==
  {WrapperPathChars(base), DotsReplaced(WrapperPathChars(base)), <<"f">>}

RECURSIVE JoinLines(_)
JoinLines(frames) ==
  IF frames = <<>> THEN <<>>
  ELSE IF Len(frames) = 1 THEN frames[1]
  ELSE frames[1] \o <<"\n">> \o JoinLines(Tail(frames))

Stacks(base) ==
  {JoinLines(frames) :
     frames \in UNION {[1..n -> Frames(base)] : n \in 0..MaxFrames}}

Errors(base) ==
  [name : {"Error", "AssertionError"}, message : {"boom"},
   stack : Stacks(base), props : {{}, {"code"}}]

NoError == [name |-> "", message |-> "", stack |-> <<>>, props |-> {}]
NothingThrown == [kind |-> "none", error |-> NoError]

\* the error the catch block throws for the error it caught
Rethrown(base, error) ==
  IF error.stack # <<>>
  THEN LET regexp == RegExpOf(WrapperPathChars(base))
       IN IF ~regexp.ok
          THEN [kind |-> "SyntaxError of new RegExp", error |-> NoError]
          ELSE [kind |-> "cleanError",
                error |-> [name |-> error.name,
                           message |-> error.message,
                           stack |-> RegExpReplaceFrom(error.stack, regexp.atoms,
                                         OriginalAbsolute(base), 1),
                           props |-> error.props]]
  ELSE [kind |-> "error", error |-> error]

IdleStack ==
  /\ sBase = <<"a">>
  /\ sError = NoError
  /\ spc = "idle"
  /\ sThrown = NothingThrown

InitStack ==
  /\ sBase \in SeqsUpTo(BaseChars, MaxBaseLen)
  /\ sError \in Errors(sBase)
  /\ spc = "start"
  /\ sThrown = NothingThrown

\* node:test imports the wrapper: it registers its test, or is rejected as a
\* program
ImportWrapper ==
  /\ UNCHANGED notStack
  /\ spc = "start"
  /\ IF WrapperParses(sBase)
     THEN spc' = "registered" /\ UNCHANGED sThrown
     ELSE /\ spc' = "unparsable"
          /\ sThrown' = [kind |-> "SyntaxError of the wrapper",
                         error |-> NoError]
  /\ UNCHANGED <<sBase, sError>>

\* runTestFile throws sError and the catch block rethrows
TestCatches ==
  /\ UNCHANGED notStack
  /\ spc = "registered"
  /\ sThrown' = Rethrown(sBase, sError)
  /\ spc' = "rethrown"
  /\ UNCHANGED <<sBase, sError>>

\* runTestFile is fulfilled: the test passes
TestPasses ==
  /\ UNCHANGED notStack
  /\ spc = "registered"
  /\ spc' = "passed"
  /\ UNCHANGED <<sBase, sError, sThrown>>

NextStack ==
  \/ ImportWrapper
  \/ TestCatches
  \/ TestPasses

(***************************************************************************)
(* The loader hooks (src/loader-hooks.ts).                                 *)
(*                                                                         *)
(* A location is a sequence of tokens: the separators, the dot, and the    *)
(* words test, spec, js, mjs, ts and x (any other name).  No word is part  *)
(* of another or of a concatenation of others in a way the pattern or the  *)
(* extensions could see, so matching token by token is matching character  *)
(* by character.                                                           *)
(***************************************************************************)
\* longest location, its extension not counted
MaxBodyLen == 3
\* most calls of registerCenobiteHooks in one process
MaxRegistrations == 2

PathTokens == {"/", "\\", ".", "test", "spec", "js", "mjs", "ts", "x"}
\* in the path of a file URL the separator is "/", and a dot may be written
\* percent-encoded
UrlTokens == (PathTokens \ {"\\"}) \cup {"%2E"}
Extensions == {<<>>, <<".", "js">>, <<".", "mjs">>, <<".", "ts">>}

SeqsFromZero(S, n) == UNION {[1..k -> S] : k \in 0..n}

RECURSIVE SplitOn(_, _)
\* the segments of path between the separators seps
SplitOn(path, seps) ==
  IF path = <<>> THEN << <<>> >>
  ELSE LET rest == SplitOn(Tail(path), seps) IN
       IF Head(path) \in seps THEN << <<>> >> \o rest
       ELSE << <<Head(path)>> \o Head(rest) >> \o Tail(rest)

\* percent-decoding, as fileURLToPath does it
PercentDecode(text) ==
  [i \in DOMAIN text |-> IF text[i] = "%2E" THEN "." ELSE text[i]]

\* the URLs the module loader hands to a hook are resolved: the path of a
\* file URL is absolute and holds no "." or ".." segment, encoded or not
IsResolvedPath(text) ==
  /\ text # <<>>
  /\ Head(text) = "/"
  /\ \A k \in DOMAIN SplitOn(PercentDecode(text), {"/"}) :
       SplitOn(PercentDecode(text), {"/"})[k] \notin {<<".">>, <<".", ".">>}

BarePaths ==
  {body \o ext : body \in SeqsFromZero(PathTokens, MaxBodyLen),
                 ext \in Extensions}
FileUrls ==
  {url \in {<<"file://">> \o body \o ext :
              body \in SeqsFromZero(UrlTokens, MaxBodyLen),
              ext \in Extensions} : IsResolvedPath(Tail(url))}
\* 'foo/test/bar.mjs', 'foo.test.ts' and 'foo/bar.mjs'
ExampleLocations ==
  { <<"x", "/", "test", "/", "x", ".", "mjs">>,
    <<"x", ".", "test", ".", "ts">>,
    <<"x", "/", "x", ".", "mjs">> }
Locations == BarePaths \cup FileUrls \cup ExampleLocations

\* url.startsWith('file://')
StartsWithFileScheme(url) == url # <<>> /\ Head(url) = "file://"
\* fileURLToPath(url) of a local file URL, on POSIX
FileURLToPath(url) == PercentDecode(Tail(url))
\* filePath of isTestFile
FilePathOf(url) ==
  IF StartsWithFileScheme(url) THEN FileURLToPath(url) ELSE url

\* filePath.endsWith(suffix)
EndsWith(path, suffix) ==
  /\ Len(suffix) <= Len(path)
  /\ SubSeq(path, Len(path) - Len(suffix) + 1, Len(path)) = suffix

\* a pattern a user may configure instead: /\.spec\./
UserTestFilePattern == { << {"."}, {"spec"}, {"."} >> }

\* pattern.test(path): some alternative matches at some position
RegExpTest(pattern, path) ==
  \E alt \in pattern : \E i \in 1..Len(path) :
    /\ i + Len(alt) - 1 <= Len(path)
    /\ \A k \in 1..Len(alt) : path[i + k - 1] \in alt[k]

\* faulty variant: the extension is not looked at
IsTestFileAnyExtension(url, options) ==
  RegExpTest(options.testFilePattern, FilePathOf(url))

\* isTestFile(url), under the module variable options
IsTestFile(url, options) ==
  /\ RegExpTest(options.testFilePattern, FilePathOf(url))
  /\ \/ EndsWith(FilePathOf(url), <<".", "js">>)
     \/ EndsWith(FilePathOf(url), <<".", "mjs">>)
     \/ EndsWith(FilePathOf(url), <<".", "ts">>)

(***************************************************************************)
(* The options a caller of registerCenobiteHooks may pass.                  *)
(***************************************************************************)
UserLockdownOptions == << <<"errorTaming", "safe">> >>

\* the userOptions registerCenobiteHooks may be called with: any subset of
\* the keys
UserOptions ==
  UNION {[keys -> BOOLEAN] : keys \in SUBSET {"debug", "useCompartmentMapper"}}
  \cup {[lockdownOptions |-> UserLockdownOptions],
        [testFilePattern |-> UserTestFilePattern],
        [debug |-> TRUE, lockdownOptions |-> UserLockdownOptions,
         testFilePattern |-> UserTestFilePattern]}

RECURSIVE Stringify(_)
\* JSON.stringify(options.lockdownOptions, null, 2), as the tokens of its text
Stringify(pairs) ==
  IF pairs = <<>> THEN <<>>
  ELSE <<Head(pairs)[1], ":", Head(pairs)[2], ",">> \o Stringify(Tail(pairs))

(***************************************************************************)
(* Sources.  The text of a module is a sequence of lines, possibly behind  *)
(* a byte order mark; the next loader hands it over as a string, a Buffer, *)
(* an ArrayBuffer or a typed array, or hands over no source.               *)
(***************************************************************************)
SourceTexts ==
  { <<>>, <<"test('t');">>, <<"import 'x';", "test('t');">>,
    <<"BOM", "test('t');">>, <<"lockdown();", "import 'ses';">> }
SourceTypes == {"string", "Buffer", "ArrayBuffer", "Uint8Array"}
NoSource == {[type |-> "undefined", content |-> <<>>],
             [type |-> "null", content |-> <<>>]}
Sources == [type : SourceTypes, content : SourceTexts] \cup NoSource

\* source.toString('utf8') of a Buffer: a byte order mark stays, as U+FEFF
BufferToString(bytes) == bytes
\* new TextDecoder('utf8').decode(source): a leading byte order mark is
\* dropped
TextDecode(bytes) ==
  IF bytes # <<>> /\ Head(bytes) = "BOM" THEN Tail(bytes) ELSE bytes

\* sourceStr of transformTestSource
SourceStr(source) ==
  IF source.type = "string" THEN source.content
  ELSE IF source.type = "Buffer" THEN BufferToString(source.content)
  ELSE TextDecode(source.content)

(***************************************************************************)
(* transformTestSource.  The text it returns is a sequence of tokens: the  *)
(* lines of the template, with the tokens of the url, of the stringified   *)
(* lockdown options and of the source spliced in where the template        *)
(* interpolates them.                                                      *)
(***************************************************************************)
\* ${debug ? `console.log('<message>${url}');` : ''}
DebugLogUrl(debug, message, url) ==
  IF debug THEN <<"console.log('", message>> \o url \o <<"');">> ELSE <<>>
\* ${debug ? `console.log(<text>);` : ''}
DebugLog(debug, text) ==
  IF debug THEN <<"console.log(", text, ");">> ELSE <<>>

\* lockdown(${lockdownOptionsStr});
LockdownCall(options) ==
  <<"lockdown(">> \o Stringify(options.lockdownOptions) \o <<");">>

\* the template of the compartment mapper path
CompartmentMapperWrapper(url, options) ==
  << "// === CENOBITE COMPARTMENT MAPPER WRAPPER ===",
     "import 'ses';",
     "import { importLocation } from '@endo/compartment-mapper';",
     "import { readFile } from 'node:fs/promises';",
     "import { fileURLToPath } from 'node:url';" >>
  \o DebugLogUrl(options.debug,
                 "[cenobite] Initializing SES with compartment-mapper for: ",
                 url)
  \o LockdownCall(options)
  \o << "const read = async (location) => {...};",
        "const importHook = async (specifier) => {...};",
        "const moduleUrl = new URL('" >> \o url \o << "');" >>
  \o DebugLog(options.debug,
              "'[cenobite] Creating compartment for module:', moduleUrl.href")
  \o << "try {",
        "const result = await importLocation(read, moduleUrl, {...});" >>
  \o DebugLog(options.debug, "'[cenobite] Test execution complete'")
  \o << "} catch (error) {",
        "console.error('[cenobite] Compartment execution failed:', error);",
        "throw error;",
        "}" >>

\* faulty variant: the original source comes before the lockdown call
SimpleWrapperSourceFirst(url, options, sourceStr) ==
  << "// === CENOBITE SES WRAPPER ===", "import 'ses';" >>
  \o sourceStr
  \o LockdownCall(options)

\* the template of the simple SES path
SimpleWrapper(url, options, sourceStr) ==
  << "// === CENOBITE SES WRAPPER ===", "import 'ses';" >>
  \o DebugLogUrl(options.debug, "[cenobite] Initializing SES lockdown for: ",
                 url)
  \o LockdownCall(options)
  \o DebugLog(options.debug,
              "'[cenobite] SES lockdown complete, running test...'")
  \o << "// Original test code (runs with SES protections):" >>
  \o sourceStr
  \o DebugLog(options.debug, "'[cenobite] Test execution complete'")

\* transformTestSource(source, url), under the module variable options
TransformTestSource(source, url, options) ==
  IF options.useCompartmentMapper
  THEN CompartmentMapperWrapper(url, options)
  ELSE SimpleWrapper(url, options, SourceStr(source))

(***************************************************************************)
(* The hooks.  The next hook of the chain answers a call by throwing or by *)
(* returning a result {source, format}; for resolve the source field holds *)
(* the resolved url.                                                       *)
(***************************************************************************)
Formats == {"module", "commonjs"}
Contexts == {"context 1", "context 2"}

NextLoadOutcomes ==
  [threw : {FALSE}, source : Sources, format : Formats]
  \cup {[threw |-> TRUE, source |-> [type |-> "undefined", content |-> <<>>],
         format |-> "module"]}
NextResolveOutcomes ==
  [threw : {FALSE},
   source : {[type |-> "url", content |-> <<"file://", "/", "x", ".", "js">>],
             [type |-> "url", content |-> <<"node:", "test">>]},
   format : Formats]
  \cup {[threw |-> TRUE, source |-> [type |-> "undefined", content |-> <<>>],
         format |-> "module"]}
NoOutcome ==
  [threw |-> FALSE, source |-> [type |-> "undefined", content |-> <<>>],
   format |-> "none"]

\* the urls of the load calls: matched and unmatched files, a builtin, a
\* file in a directory whose name holds an apostrophe
LoaderUrls ==
  { <<"file://", "/", "x", "/", "test", "/", "x", ".", "mjs">>,
    <<"file://", "/", "x", ".", "test", ".", "ts">>,
    <<"file://", "/", "x", ".", "spec", ".", "js">>,
    <<"file://", "/", "x", "/", "x", ".", "mjs">>,
    <<"file://", "/", "x", ".", "test", ".", "x">>,
    <<"node:", "test">>,
    <<"file://", "/", "o", "'", "x", "/", "x", ".", "test", ".", "js">> }
Specifiers ==
  { <<".", "/", "x", ".", "test", ".", "js">>, <<"node:", "test">>, <<"x">> }

NoResult ==
  [kind |-> "none", error |-> "none",
   source |-> [type |-> "undefined", content |-> <<>>], format |-> "none"]
Returned(source, format) ==
  [kind |-> "returned", error |-> "none", source |-> source,
   format |-> format]
Threw(error) ==
  [kind |-> "threw", error |-> error,
   source |-> [type |-> "undefined", content |-> <<>>], format |-> "none"]

\* the string literal that starts at position i of a program text: it runs
\* to the first quote, and the statement `new URL('...');` is well formed
\* only if that quote is the one of the closing token
QuoteTokens == {"'", "');"}
StringLiteralAt(text, i) ==
  LET ends == {e \in i..Len(text) : text[e] \in QuoteTokens}
      e == CHOOSE e \in ends : \A m \in ends : e <= m
  IN IF ends = {} THEN [wellFormed |-> FALSE, value |-> <<>>]
     ELSE [wellFormed |-> text[e] = "');", value |-> SubSeq(text, i, e - 1)]

\* faulty variant: the result of the next hook is rebuilt without its format
PassThroughDropsFormat(next) ==
  IF next.threw THEN Threw("error of the next hook")
  ELSE Returned(next.source, "none")

\* `return nextLoad(url, context)` and `nextResolve(specifier, context)`:
\* what the next hook returned is returned, what it threw is thrown
PassThrough(next) ==
  IF next.threw THEN Threw("error of the next hook")
  ELSE Returned(next.source, next.format)

\* faulty variant: every source counts as present
TruthyAlways(source) == TRUE

\* !result.source is false
Truthy(source) ==
  /\ source.type \notin {"undefined", "null"}
  /\ ~(source.type = "string" /\ source.content = <<>>)

\* load(url, context, nextLoad): the calls of nextLoad it makes and what it
\* returns or throws, next being the answer of nextLoad
LoadHook(url, context, next, options) ==
  [calls |-> << [fn |-> "nextLoad", url |-> url, context |-> context] >>,
   result |->
     IF IsTestFile(url, options)
     THEN IF next.threw THEN Threw("error of the next hook")
          ELSE IF ~Truthy(next.source)
          THEN Threw("No source content found for test file")
          ELSE Returned([type |-> "string",
                         content |->
                           TransformTestSource(next.source, url, options)],
                        next.format)
     ELSE PassThrough(next)]

\* what a hook's result is to the hook that called it through nextLoad
AsOutcome(result) ==
  [threw |-> result.kind = "threw", source |-> result.source,
   format |-> IF result.kind = "threw" THEN "module" ELSE result.format]

RECURSIVE ChainLoad(_, _, _, _, _)
\* the result of the n hooks registered so far, the last registered being
\* the outermost: each is the same function load, reading the same options
ChainLoad(n, url, context, base, options) ==
  IF n = 0 THEN PassThrough(base)
  ELSE LoadHook(url, context,
                AsOutcome(ChainLoad(n - 1, url, context, base, options)),
                options).result

\* resolve(specifier, context, nextResolve)
ResolveHook(specifier, context, next) ==
  [calls |-> << [fn |-> "nextResolve", url |-> specifier,
                 context |-> context] >>,
   result |-> PassThrough(next)]

\* the child, started with --import file://.../loader-hooks.js, imports the
\* module before it runs anything else: the module registers its hooks with
\* the options it reads from the environment the child was spawned with
ChildImportsLoaderHooks ==
  /\ UNCHANGED notHooks
  /\ hpc \in {"spawned", "attached", "listening"}
  /\ spawnKind = "runs"
  /\ ~childExitFired
  /\ ~childRegistered
  /\ childRegistered' = TRUE
  /\ childOptions' = ConfigureLoaderHooks(AutoRegisterOptions(childEnv))
  /\ UNCHANGED <<hOptions, parentEnv, hpc, nodeArgs, childEnv, spawnKind,
                 childErrorFired, childExitFired, exitHandled, eventLost,
                 sLog, sEnded, hCrashed>>

NextHooks ==
  \/ Spawn
  \/ AttachHandlers
  \/ CallerListens
  \/ \E status \in ExitStatuses : ChildExit(status)
  \/ ChildError
  \/ ChildImportsLoaderHooks

IdleLoader ==
  /\ lOptions = defaultOptions
  /\ lpc = "unregistered"
  /\ lUrl = <<>>
  /\ lContext = "none"
  /\ lNext = NoOutcome
  /\ lCalls = <<>>
  /\ lResult = NoResult
  /\ lMatched = FALSE
  /\ lHooks = 0
  /\ lDelivered = NoResult

\* registerCenobiteHooks(userOptions): configureLoaderHooks(userOptions),
\* then registerHooks({load, resolve}), which adds one more pair of hooks to
\* the chain.  The first call is the one the module makes when it is
\* imported, with debug and useCompartmentMapper taken from the environment;
\* the function is exported and may be called again.
RegisterCenobiteHooks(userOptions) ==
  /\ UNCHANGED notLoader
  /\ lpc \in {"unregistered", "registered"}
  /\ lHooks < MaxRegistrations
  /\ lpc = "unregistered" =>
       DOMAIN userOptions = {"debug", "useCompartmentMapper"}
  /\ lOptions' = ConfigureLoaderHooks(userOptions)
  /\ lHooks' = lHooks + 1
  /\ lpc' = "registered"
  /\ UNCHANGED <<lUrl, lContext, lNext, lCalls, lResult, lMatched, lDelivered>>

\* the module loader calls the load hook
Load(url, context, next) ==
  /\ UNCHANGED notLoader
  /\ lpc = "registered"
  /\ lUrl' = url
  /\ lContext' = context
  /\ lNext' = next
  /\ lMatched' = IsTestFile(url, lOptions)
  /\ lCalls' = LoadHook(url, context, next, lOptions).calls
  /\ lResult' = LoadHook(url, context, next, lOptions).result
  /\ lpc' = "loaded"
  /\ UNCHANGED <<lOptions, lHooks, lDelivered>>

\* the module loader loads a module: it calls the load hook registered last,
\* whose nextLoad is the hook registered before it, and so on down to the
\* default loader, which answers with base
HostLoad(url, context, base) ==
  /\ UNCHANGED notLoader
  /\ lpc = "registered"
  /\ lUrl' = url
  /\ lContext' = context
  /\ lNext' = base
  /\ lMatched' = IsTestFile(url, lOptions)
  /\ lCalls' = <<>>
  /\ lResult' = NoResult
  /\ lDelivered' = ChainLoad(lHooks, url, context, base, lOptions)
  /\ lpc' = "delivered"
  /\ UNCHANGED <<lOptions, lHooks>>

\* the module loader calls the resolve hook
Resolve(specifier, context, next) ==
  /\ UNCHANGED notLoader
  /\ lpc = "registered"
  /\ lUrl' = specifier
  /\ lContext' = context
  /\ lNext' = next
  /\ lCalls' = ResolveHook(specifier, context, next).calls
  /\ lResult' = ResolveHook(specifier, context, next).result
  /\ lpc' = "resolved"
  /\ UNCHANGED <<lOptions, lMatched, lHooks, lDelivered>>

\* the hook call is over and its record is dropped; the loader goes on to
\* the next module
HookReturns ==
  /\ UNCHANGED notLoader
  /\ lpc \in {"loaded", "resolved", "delivered"}
  /\ lpc' = "registered"
  /\ lDelivered' = NoResult
  /\ lUrl' = <<>>
  /\ lContext' = "none"
  /\ lNext' = NoOutcome
  /\ lCalls' = <<>>
  /\ lResult' = NoResult
  /\ lMatched' = FALSE
  /\ UNCHANGED <<lOptions, lHooks>>

NextLoader ==
  \/ \E userOptions \in UserOptions : RegisterCenobiteHooks(userOptions)
  \/ \E url \in LoaderUrls, context \in Contexts, next \in NextLoadOutcomes :
       Load(url, context, next)
  \/ \E specifier \in Specifiers, context \in Contexts,
        next \in NextResolveOutcomes : Resolve(specifier, context, next)
  \/ \E url \in LoaderUrls, context \in Contexts, base \in NextLoadOutcomes :
       HostLoad(url, context, base)
  \/ HookReturns

\* isTestFile is applied to one location, under the default options
IsTestFileCall ==
  /\ UNCHANGED notLoader
  /\ lpc = "classify"
  /\ lMatched' = IsTestFile(lUrl, lOptions)
  /\ lpc' = "classified"
  /\ UNCHANGED <<lOptions, lUrl, lContext, lNext, lCalls, lResult, lHooks,
                 lDelivered>>

NextClassify == IsTestFileCall


(***************************************************************************)
(* main's command line (src/cli.ts).  An argument is one token.            *)
(***************************************************************************)
\* the options main declares to parseArgs, by the tokens that name them
\* (long names and the short names h and v), with the name parseArgs files
\* the value under
OptionTokens ==
  "--globals" :> "globals" @@ "--help" :> "help" @@ "-h" :> "help" @@
  "--modules" :> "modules" @@ "--reporter" :> "reporter" @@
  "--verbose" :> "verbose" @@ "-v" :> "verbose"

\* the declared options of type 'string'; the others are of type 'boolean'
StringOptions == {"globals", "modules", "reporter"}

\* option tokens main does not declare
UndeclaredOptionTokens == {"--isolate", "--test-reporter"}

\* arguments that are no options
PlainTokens == {"a.test.js", "tap"}

\* the arguments of the model's command lines
ArgTokens ==
  {"--isolate", "--test-reporter", "--verbose", "-h", "--reporter"}
    \cup PlainTokens

\* every command line of at most MaxArgs arguments
CommandLines == UNION {[1..k -> ArgTokens] : k \in 0..MaxArgs}

IsOptionLike(arg) == arg \in DOMAIN OptionTokens \cup UndeclaredOptionTokens

NoValues == [help |-> FALSE, verbose |-> FALSE, reporter |-> "undefined"]

RECURSIVE ParseArgsFrom(_, _)
\* parseArgs({allowPositionals: true, args, options}) in its default strict
\* mode, from the arguments still to read and the result so far: an
\* undeclared option throws, and so does a string option whose value is
\* missing or looks like an option
ParseArgsFrom(args, acc) ==
  IF args = <<>> THEN acc
  ELSE LET arg == Head(args)
           rest == Tail(args)
       IN IF arg \in UndeclaredOptionTokens
          THEN [acc EXCEPT !.kind = "threw",
                           !.error = "ERR_PARSE_ARGS_UNKNOWN_OPTION"]
          ELSE IF arg \notin DOMAIN OptionTokens
          THEN ParseArgsFrom(rest, [acc EXCEPT !.positionals = Append(@, arg)])
          ELSE IF OptionTokens[arg] \notin StringOptions
          THEN ParseArgsFrom(rest,
                 [acc EXCEPT !.values =
                    IF OptionTokens[arg] = "help"
                    THEN [@ EXCEPT !.help = TRUE]
                    ELSE [@ EXCEPT !.verbose = TRUE]])
          ELSE IF rest = <<>> \/ IsOptionLike(Head(rest))
          THEN [acc EXCEPT !.kind = "threw",
                           !.error = "ERR_PARSE_ARGS_INVALID_OPTION_VALUE"]
          ELSE ParseArgsFrom(Tail(rest),
                 [acc EXCEPT !.values =
                    IF OptionTokens[arg] = "reporter"
                    THEN [@ EXCEPT !.reporter = Head(rest)]
                    ELSE @])

ParseArgs(args) ==
  ParseArgsFrom(args, [kind |-> "ok", values |-> NoValues,
                       positionals |-> <<>>, error |-> "none"])

NoCliOptions ==
  [enableSourceMaps |-> FALSE, files |-> <<>>, verbose |-> FALSE,
   reporter |-> "undefined"]

\* the options main builds for the run
CliOptions(values, positionals, ci) ==
  [enableSourceMaps |-> TRUE,
   files |-> positionals,
   verbose |-> values.verbose,
   reporter |-> IF values.reporter # "undefined" THEN values.reporter
                ELSE IF ci THEN "tap" ELSE "spec"]

\* main is not running
IdleCli ==
  /\ argv = <<>>
  /\ ciEnv = FALSE
  /\ cpc = "idle"
  /\ cValues = NoValues
  /\ cPositionals = <<>>
  /\ cError = "none"
  /\ cExit = -1
  /\ cOptions = NoCliOptions
  /\ cStrategy = "none"

\* main is called
InitCli ==
  /\ argv \in CommandLines
  /\ ciEnv \in BOOLEAN
  /\ cpc = "start"
  /\ cValues = NoValues
  /\ cPositionals = <<>>
  /\ cError = "none"
  /\ cExit = -1
  /\ cOptions = NoCliOptions
  /\ cStrategy = "none"

\* const { positionals, values } = parseArgs({...}); a throw rejects main's
\* promise
CliParseArgs ==
  /\ UNCHANGED notCli
  /\ cpc = "start"
  /\ LET parsed == ParseArgs(argv)
     IN IF parsed.kind = "threw"
        THEN /\ cpc' = "threw"
             /\ cError' = parsed.error
             /\ UNCHANGED <<cValues, cPositionals>>
        ELSE /\ cpc' = "parsed"
             /\ cValues' = parsed.values
             /\ cPositionals' = parsed.positionals
             /\ UNCHANGED cError
  /\ UNCHANGED <<argv, ciEnv, cExit, cOptions, cStrategy>>

\* if (values.help || positionals.length === 0): print the usage and
\* process.exit(values.help ? 0 : 1)
CliUsage ==
  /\ UNCHANGED notCli
  /\ cpc = "parsed"
  /\ cValues.help \/ Len(cPositionals) = 0
  /\ cExit' = IF cValues.help THEN 0 ELSE 1
  /\ cpc' = "exited"
  /\ UNCHANGED <<argv, ciEnv, cValues, cPositionals, cError, cOptions,
                 cStrategy>>

\* otherwise main imports ./wrapper-integration.js and awaits
\* runTestsWithCenobiteWrappers(options)
CliRun ==
  /\ UNCHANGED notCli
  /\ cpc = "parsed"
  /\ ~(cValues.help \/ Len(cPositionals) = 0)
  /\ cOptions' = CliOptions(cValues, cPositionals, ciEnv)
  /\ cStrategy' = "wrapper"
  /\ cpc' = "running"
  /\ UNCHANGED <<argv, ciEnv, cValues, cPositionals, cError, cExit>>

NextCli ==
  \/ CliParseArgs
  \/ CliUsage
  \/ CliRun

(***************************************************************************)
(* importHook (src/cli.ts, and the same function in the text the           *)
(* full-isolation strategy generates).  An object is a function from its   *)
(* own enumerable property names.                                          *)
(***************************************************************************)
\* the export names of the model's modules, in the order Object.keys lists
\* the keys of a module namespace
ExportNames == <<"a", "b", "default">>

ExportValues == {"v1", "v2"}

\* the module namespace objects import() can resolve to
Namespaces ==
  UNION {[names -> ExportValues] :
           names \in SUBSET {ExportNames[i] : i \in DOMAIN ExportNames}}

ImportSpecifiers == {"node:fs", "foo"}

\* Object.keys(object)
Keys(object) == SelectSeq(ExportNames, LAMBDA name : name \in DOMAIN object)

\* Object.assign(target, source)
Assign(target, source) ==
  [name \in DOMAIN target \cup DOMAIN source |->
     IF name \in DOMAIN source THEN source[name] ELSE target[name]]

\* target.default = value
SetDefault(target, value) ==
  [name \in DOMAIN target \cup {"default"} |->
     IF name = "default" THEN value ELSE target[name]]

EmptyObject == [name \in {} |-> "v1"]

NoRecord == [exports |-> <<>>, imports |-> <<>>, frozen |-> FALSE]

\* the record importHook returns for ns; a module namespace is an object
ImportHookRecord(namespace) ==
  [exports |-> Keys(namespace), imports |-> <<>>, frozen |-> TRUE]

IdleImport ==
  /\ ipc = "idle"
  /\ iSpecifier = "none"
  /\ ns = EmptyObject
  /\ iRecord = NoRecord
  /\ moduleExports = EmptyObject
  /\ iWritten = {}

\* importHook(specifier) is called
InitImport ==
  /\ ipc = "called"
  /\ iSpecifier \in ImportSpecifiers
  /\ ns = EmptyObject
  /\ iRecord = NoRecord
  /\ moduleExports = EmptyObject
  /\ iWritten = {}

\* const ns = await import(specifier): the import is fulfilled
ImportFulfilled(namespace) ==
  /\ UNCHANGED notImport
  /\ ipc = "called"
  /\ ns' = namespace
  /\ ipc' = "imported"
  /\ UNCHANGED <<iSpecifier, iRecord, moduleExports, iWritten>>

\* the import is rejected and so is importHook
ImportRejected ==
  /\ UNCHANGED notImport
  /\ ipc = "called"
  /\ ipc' = "rejected"
  /\ UNCHANGED <<iSpecifier, ns, iRecord, moduleExports, iWritten>>

\* return freeze({execute, exports, imports: []})
ImportHookReturns ==
  /\ UNCHANGED notImport
  /\ ipc = "imported"
  /\ iRecord' = ImportHookRecord(ns)
  /\ ipc' = "returned"
  /\ UNCHANGED <<iSpecifier, ns, moduleExports, iWritten>>

\* the loader calls execute(moduleExports) with a fresh exports object:
\* moduleExports.default = ns; assign(moduleExports, ns)
Execute ==
  /\ UNCHANGED notImport
  /\ ipc = "returned"
  /\ moduleExports' = Assign(SetDefault(moduleExports, "[namespace]"), ns)
  /\ iWritten' = {"default"} \cup DOMAIN ns
  /\ ipc' = "executed"
  /\ UNCHANGED <<iSpecifier, ns, iRecord>>

NextImport ==
  \/ \E namespace \in Namespaces : ImportFulfilled(namespace)
  \/ ImportRejected
  \/ ImportHookReturns
  \/ Execute

vars == <<wrapVars, mainVars, hookVars, loadVars, stackVars, loaderVars,
          cliVars, importVars>>

Init ==
  InitWrap /\ InitMain /\ IdleHooks /\ IdleLoad /\ IdleStack /\ IdleLoader
    /\ IdleCli /\ IdleImport

Next ==
  \/ CreateTestWrapper
  \/ \E which \in {"wrapper", "map"} : WriteFileOk(which)
  \/ \E which \in {"wrapper", "map"} : WriteFileFail(which)
  \/ WrapperCreated
  \/ WrapperFailed
  \/ \E j \in 1..(2 * MaxFiles) : Unlink(j)
  \/ CleanupDone
  \/ RunTests
  \/ \E counts \in Counts : StreamSummary(counts)
  \/ StreamError
  \/ StreamEnd

Spec == Init /\ [][Next]_vars

\* the same machine with the scheduling of cleanup: an unlink that was
\* issued settles (the file system answers every request), and the
\* continuation of a settled Promise.all runs
SpecCleanup ==
  /\ Spec
  /\ WF_vars(\E j \in 1..(2 * MaxFiles) : Unlink(j))
  /\ WF_vars(CleanupDone)

\* main is not running: nothing has been asked of the wrapper machine
IdleWrap ==
  /\ files = <<>>
  /\ pc = "idle"
  /\ idx = 1
  /\ wrapperPaths = <<>>
  /\ writes = NoWrites
  /\ unlinks = <<>>
  /\ disk = {}
  /\ written = {}
  /\ unlinkFailed = {}
  /\ caught = NoErr
  /\ thrown = NoErr
  /\ reporter = "unread"
  /\ composed = "none"

HooksInit ==
  IdleWrap /\ InitMain /\ InitHooks /\ IdleLoad /\ IdleStack /\ IdleLoader
    /\ IdleCli /\ IdleImport
SpecHooks == HooksInit /\ [][NextHooks]_vars

LoadInit ==
  IdleWrap /\ InitMain /\ IdleHooks /\ IdleLoad /\ IdleStack /\ IdleLoader
    /\ IdleCli /\ IdleImport
SpecLoad == LoadInit /\ [][NextLoad]_vars

StackInit ==
  IdleWrap /\ InitMain /\ IdleHooks /\ IdleLoad /\ InitStack /\ IdleLoader
    /\ IdleCli /\ IdleImport
SpecStack == StackInit /\ [][NextStack]_vars

LoaderInit ==
  IdleWrap /\ InitMain /\ IdleHooks /\ IdleLoad /\ IdleStack /\ IdleLoader
    /\ IdleCli /\ IdleImport
SpecLoader == LoaderInit /\ [][NextLoader]_vars

\* one location of the bounded set, the options being the defaults
InitClassify ==
  /\ lOptions = defaultOptions
  /\ lpc = "classify"
  /\ lUrl \in Locations
  /\ lContext = "none"
  /\ lNext = NoOutcome
  /\ lCalls = <<>>
  /\ lResult = NoResult
  /\ lMatched = FALSE
  /\ lHooks = 0
  /\ lDelivered = NoResult
ClassifyInit ==
  IdleWrap /\ InitMain /\ IdleHooks /\ IdleLoad /\ IdleStack /\ InitClassify
    /\ IdleCli /\ IdleImport
SpecClassify == ClassifyInit /\ [][NextClassify]_vars

(***************************************************************************)
(* Claims about the wrapper run (checked under Spec).                      *)
(***************************************************************************)
\* the two paths createTestWrapper writes for the file at index j
PathsOf(j) == {WrapperPath(files[j]), SourceMapPath(WrapperPath(files[j]))}

\* the wrapper run is over: the stream has emitted a summary or an error and
\* main has resolved, rejected or exited
RunFinished ==
  /\ pc = "returned"
  /\ emitted >= 1
  /\ (mainPromise # "pending" \/ processExited)

\* C2: once a wrapper run whose wrappers were all created has finished, every
\* wrapper and every source map the call produced has been deleted.
C2_ReleaseAfterUse ==
  RunFinished => \A path \in written : path \notin disk

\* C3 (as claimed): when the call rejects because file idx failed, no wrapper
\* and no map exists for any other file of the batch (one whose paths are
\* not the failing file's own).
C3_NoOtherWrapperAtReject ==
  pc = "rejected" =>
    \A j \in 1..Len(files) :
      files[j] # files[idx] => PathsOf(j) \cap disk = {}

\* C3 (amended): when the call rejects because file idx failed, every unlink
\* of cleanupWrappers has settled; the wrapper and the map of a file created
\* before idx are gone unless their unlink failed or the failing file, having
\* the same base name, wrote the same path; and nothing was written for a
\* file after idx.
C3_BatchFailureCleanup ==
  pc = "rejected" =>
    /\ \A u \in DOMAIN unlinks : unlinks[u] # "pending"
    /\ \A j \in 1..(idx - 1) : \A path \in PathsOf(j) :
         path \in disk => (path \in unlinkFailed \/ files[j] = files[idx])
    /\ written \subseteq UNION {PathsOf(j) : j \in 1..idx}

\* C3 witness: file 2 of 3 failed, the wrapper and the map of file 1 had been
\* created and cleanup removed both.
C3_Witness ==
  /\ pc = "rejected" /\ Len(files) = 3 /\ idx = 2
  /\ files[1] # files[2]
  /\ PathsOf(1) \subseteq written
  /\ PathsOf(1) \cap disk = {}
  /\ unlinkFailed = {}

\* C4: after the call rejects, no file it wrote remains, the failing file's
\* own wrapper and map included (stated for the runs in which no unlink
\* failed, so that what remains is not what a failed deletion left).
C4_NoPartialState ==
  (pc = "rejected" /\ unlinkFailed = {}) => written \cap disk = {}

\* C8: for the counts of any summary main handles, main calls process.exit(1)
\* iff tests - passed - skipped - cancelled - todo > 0 and calls resolve
\* otherwise, which fulfils its promise unless it was already rejected.
C8_FailureArithmetic ==
  lastSummary # NoSummary =>
    LET failed == lastSummary.tests - lastSummary.passed - lastSummary.skipped
                  - lastSummary.cancelled - lastSummary.todo
    IN /\ (failed > 0) <=> (mainCall = "exit" /\ processExited)
       /\ (failed <= 0) <=> (mainCall = "resolve" /\ ~processExited)
       /\ (failed <= 0 /\ ~errorEmitted) => mainPromise = "resolved"

\* C8 witness: a summary with a failed test made main exit
C8_Witness ==
  /\ lastSummary # NoSummary
  /\ lastSummary.tests = 1 /\ lastSummary.passed = 0
  /\ processExited

\* C9: in a run where a test fails, wrapper creation fails or the stream
\* emits error, main ends in a failing outcome: process.exit(1) or a rejected
\* promise (a promise that is fulfilled while the process lives on is a
\* successful outcome).
C9_FailuresNeverSwallowed ==
  (testFailed \/ pc = "rejected" \/ errorEmitted) =>
    (processExited \/ mainPromise = "rejected")

(***************************************************************************)
(* Claims about runTestsWithLoaderHooks (checked under SpecHooks).         *)
(***************************************************************************)
\* the child will fire no further event
ChildDone ==
  \/ childExitFired
  \/ spawnKind = "fails" /\ childErrorFired

\* C6: whatever becomes of the child (exit 0, exit non-zero, killed, not
\* spawned), once it is done the stream has emitted exactly one terminal
\* event and has been ended (stated for the runs in which every handler was
\* registered before the child's events fired).
C6_SingleTerminalEvent ==
  (ChildDone /\ ~eventLost /\ ~hCrashed) => (Len(sLog) = 1 /\ sEnded)

\* C7: when the 'exit' handler has run, the stream has emitted exactly the
\* summary {tests 1, passed 1, cancelled 0, skipped 0, todo 0} and no error if
\* the child exited with code 0, and an error and no summary for any other
\* status (a non-zero code, or null).
C7_ExitStatusMapping ==
  exitHandled # NotExited =>
    IF ~exitHandled.isNull /\ exitHandled.code = 0
    THEN sLog = << [type |-> "test:summary",
                    counts |-> [tests |-> 1, passed |-> 1, skipped |-> 0,
                                cancelled |-> 0, todo |-> 0]] >>
    ELSE /\ sLog # <<>>
         /\ \A k \in DOMAIN sLog : sLog[k].type = "error"

\* C7 witness: the child was killed by a signal and the stream emitted an error
C7_Witness ==
  /\ exitHandled # NotExited /\ exitHandled.isNull
  /\ sLog = <<ErrorEvent>>

(***************************************************************************)
(* Claims about initializeSES and runTestFile (checked under SpecLoad).    *)
(***************************************************************************)
\* C1: a value a module of one load assigned to a property of its global is
\* never what a module of another load reads, nor what the host reads: a
\* load reads undefined or its own value, the host reads undefined.
C1_IsolationBetweenLoads ==
  /\ \A l \in Loads :
       observed[l] # NotObserved => observed[l] \in {Undefined, ValueOf(l)}
  /\ hostObserved # NotObserved => hostObserved = Undefined

\* C5: calling initializeSES again in a locked process does not throw, leaves
\* the process locked, and the hardening is applied at most once.
C5_LockdownIdempotent ==
  initCalls >= 1 => (locked /\ ~initThrew /\ hardenings <= 1)

(***************************************************************************)
(* Claims about the generated wrapper (checked under SpecStack).           *)
(***************************************************************************)
\* C10: for every wrapper path W and original O, an error of runTestFile
\* whose stack mentions W is rethrown with a stack that holds no W and at
\* least one O and is otherwise unchanged (every occurrence of W replaced by
\* O, nothing else), with the same name, message and enumerable properties.
C10_StackRewriting ==
  (spc = "rethrown" /\ Contains(sError.stack, WrapperPathChars(sBase))) =>
    /\ sThrown.kind = "cleanError"
    /\ ~Contains(sThrown.error.stack, WrapperPathChars(sBase))
    /\ Contains(sThrown.error.stack, OriginalAbsolute(sBase))
    /\ sThrown.error.stack =
         LiteralReplaceFrom(sError.stack, WrapperPathChars(sBase),
                            OriginalAbsolute(sBase), 1)
    /\ sThrown.error.name = sError.name
    /\ sThrown.error.message = sError.message
    /\ sThrown.error.props = sError.props

\* C15: deletion failures are absorbed.  Whenever the call has rejected,
\* an unlink was issued for every wrapper and every map of wrapperPaths and
\* each has settled, failed ones included; the error the caller receives is
\* the writeFile error the catch block caught, never an unlink error; and a
\* cleanup that has started always ends (it neither rejects early nor
\* hangs).
C15_AbsorbedAtReject ==
  pc = "rejected" =>
    /\ DOMAIN unlinks = 1..(2 * Len(wrapperPaths))
    /\ \A j \in DOMAIN unlinks : unlinks[j] \in {"ok", "failed"}
    /\ thrown = caught
    /\ thrown.op = "writeFile"
    /\ thrown.path \in PathsOf(idx)

C15_DeletionFailuresAbsorbed ==
  /\ [](C15_AbsorbedAtReject)
  /\ (pc = "cleanup" ~> pc = "rejected")

\* C15 witness: the call rejected after an unlink of cleanup had failed and
\* another had succeeded.
C15_Witness ==
  /\ pc = "rejected"
  /\ \E j \in DOMAIN unlinks : unlinks[j] = "failed"
  /\ \E j \in DOMAIN unlinks : unlinks[j] = "ok"
  /\ thrown = caught /\ thrown.op = "writeFile"

\* C14: the bindings of a compartment are fixed at construction.  In every
\* load that has started, the name testValue is bound on the global the
\* modules of the load see only if it was among the globals handed to
\* importLocation: a module's write to the absent name is rejected.
C14_FixedBindingSet ==
  \A l \in Loads :
    (loadState[l] # "idle" /\ heap[GlobalThisOf(l)] # Undefined)
      => "testValue" \in DOMAIN endowments[l]

(***************************************************************************)
(* Claims about the loader hooks (checked under SpecLoader, and            *)
(* SpecClassify for isTestFile).                                           *)
(***************************************************************************)
\* the text of a source: a string as it is, bytes decoded as UTF-8 (the byte
\* order mark is a signature, not text)
TextOf(source) ==
  IF source.type = "string" THEN source.content
  ELSE IF source.content # <<>> /\ Head(source.content) = "BOM"
       THEN Tail(source.content) ELSE source.content

\* C16: pass-through of unmatched loads.  When load was called with a url
\* isTestFile rejects, nextLoad was called exactly once, with that url and
\* that context, and load returned the source and format nextLoad returned
\* (or threw what it threw); resolve does the same with nextResolve for
\* every specifier.
C16_PassThrough ==
  /\ (lpc = "loaded" /\ ~lMatched) =>
       /\ lCalls = << [fn |-> "nextLoad", url |-> lUrl, context |-> lContext] >>
       /\ IF lNext.threw
          THEN lResult.kind = "threw"
               /\ lResult.error = "error of the next hook"
          ELSE lResult.kind = "returned"
               /\ lResult.source = lNext.source
               /\ lResult.format = lNext.format
  /\ lpc = "resolved" =>
       /\ lCalls = << [fn |-> "nextResolve", url |-> lUrl,
                       context |-> lContext] >>
       /\ IF lNext.threw
          THEN lResult.kind = "threw"
               /\ lResult.error = "error of the next hook"
          ELSE lResult.kind = "returned"
               /\ lResult.source = lNext.source
               /\ lResult.format = lNext.format

\* C16 witness: load was called for foo/bar.mjs, which is no test file, and
\* returned the Buffer and the format the next loader gave.
C16_Witness ==
  /\ lpc = "loaded" /\ ~lMatched
  /\ lUrl = <<"file://", "/", "x", "/", "x", ".", "mjs">>
  /\ lNext.source.type = "Buffer" /\ lNext.source.content # <<>>
  /\ lResult.kind = "returned" /\ lResult.source = lNext.source
  /\ lResult.format = "commonjs"

\* C17: a matched file without source is fatal.  When load was called with
\* a url isTestFile accepts and the next loader returned no source, load
\* threw; and whenever load returned for a matched url, what it returned is
\* a transformed text (it holds the lockdown call), never the source as the
\* next loader gave it.
C17_MatchedWithoutSourceIsFatal ==
  (lpc = "loaded" /\ lMatched) =>
    /\ (~lNext.threw /\ lNext.source.type \in {"undefined", "null"}) =>
         /\ lResult.kind = "threw"
         /\ lResult.error = "No source content found for test file"
    /\ lResult.kind = "returned" =>
         /\ lResult.source # lNext.source
         /\ lResult.source.type = "string"
         /\ Contains(lResult.source.content, <<"lockdown(">>)

\* C17 witness: a matched url, the next loader returned an undefined source,
\* and load threw.
C17_Witness ==
  /\ lpc = "loaded" /\ lMatched
  /\ ~lNext.threw /\ lNext.source.type = "undefined"
  /\ lResult.kind = "threw"
  /\ lResult.error = "No source content found for test file"

\* the words of C18, on the path of a location
HasTestExtension(path) ==
  /\ Len(path) >= 2
  /\ path[Len(path) - 1] = "."
  /\ path[Len(path)] \in {"js", "mjs", "ts"}
HasFilenameMarker(path) ==
  \/ Contains(path, <<".", "test", ".">>)
  \/ Contains(path, <<".", "spec", ".">>)
\* a segment named test with a separator before it and one after it
HasTestDirectory(path) ==
  LET segments == SplitOn(path, {"/", "\\"})
  IN \E k \in 2..(Len(segments) - 1) : segments[k] = <<"test">>

C19_SimpleStrategyOutput ==
  (lpc = "loaded" /\ lMatched /\ ~lOptions.useCompartmentMapper
     /\ lResult.kind = "returned") =>
    LET out == lResult.source.content
        call == <<"lockdown(">> \o Stringify(lOptions.lockdownOptions)
                  \o <<");">>
        text == TextOf(lNext.source)
    IN \E i \in 1..Len(out), j \in 1..Len(out), k \in 1..(Len(out) + 1) :
         /\ out[i] = "import 'ses';"
         /\ i < j
         /\ OccursAt(call, out, j)
         /\ j + Len(call) <= k
         /\ k + Len(text) - 1 <= Len(out)
         /\ SubSeq(out, k, k + Len(text) - 1) = text

\* C19 witness: a matched url, the simple strategy, a typed array behind a
\* byte order mark, user lockdown options, and load returned.
C19_Witness ==
  /\ lpc = "loaded" /\ lMatched /\ ~lOptions.useCompartmentMapper
  /\ lOptions.lockdownOptions = UserLockdownOptions
  /\ lNext.source = [type |-> "Uint8Array", content |-> <<"BOM", "test('t');">>]
  /\ lResult.kind = "returned"
  /\ Contains(lResult.source.content, <<"test('t');">>)

\* C20: full-isolation strategy output.  When load returned for a matched
\* url with useCompartmentMapper true, the text it returned holds none of
\* the original source text and is a program that calls lockdown, then
\* builds moduleUrl from a well-formed string literal whose value is the url
\* of the intercepted module, then calls importLocation with it inside a
\* try whose catch rethrows the error.
C20_FullIsolationOutput ==
  (lpc = "loaded" /\ lMatched /\ lOptions.useCompartmentMapper
     /\ lResult.kind = "returned") =>
    LET out == lResult.source.content
        text == TextOf(lNext.source)
    IN /\ text # <<>> => ~Contains(out, text)
       /\ \E j \in 1..Len(out), u \in 1..Len(out), c \in 1..Len(out),
             t \in 1..Len(out) :
            /\ out[j] = "lockdown("
            /\ j < u
            /\ out[u] = "const moduleUrl = new URL('"
            /\ StringLiteralAt(out, u + 1).wellFormed
            /\ StringLiteralAt(out, u + 1).value = lUrl
            /\ u < c
            /\ out[c] =
                 "const result = await importLocation(read, moduleUrl, {...});"
            /\ c < t
            /\ out[t] = "throw error;"

C26_DebugFlagHonoured ==
  (childRegistered /\ parentEnv.CENOBITE_DEBUG = "1") => childOptions.debug

\* C28: no child event is lost.  Under every interleaving of the child's
\* events with the steps of runTestsWithLoaderHooks and of its caller, no
\* event of the child fires while no handler is registered for it, and no
\* terminal event is emitted on the stream while the caller has no listener
\* for it (which would throw it instead of delivering it).
C28_NoLostChildEvent == ~eventLost /\ ~hCrashed

(***************************************************************************)
(* Claims about the registration of the hooks (checked under SpecLoader).  *)
(***************************************************************************)
\* C22: the transform options are write-once.  Once hooks are registered,
\* no step changes the options they read: every later load sees the record
\* set at registration, a further call of registerCenobiteHooks included.
C22_OptionsWriteOnce == [][lHooks >= 1 => lOptions' = lOptions]_vars

\* the positions of a token in a text
PositionsOf(text, token) == {i \in DOMAIN text : text[i] = token}

\* C29: each matched source is transformed exactly once.  Whatever the
\* number of calls of registerCenobiteHooks, the text the module loader is
\* given for a matched file holds exactly one isolation preamble and
\* exactly one lockdown call.
C29_TransformedOnce ==
  (lpc = "delivered" /\ lMatched /\ lDelivered.kind = "returned") =>
    LET out == lDelivered.source.content
    IN /\ Cardinality(PositionsOf(out, "// === CENOBITE SES WRAPPER ===")
                      \cup PositionsOf(out,
                             "// === CENOBITE COMPARTMENT MAPPER WRAPPER ==="))
            = 1
       /\ Cardinality(PositionsOf(out, "lockdown(")) = 1

(***************************************************************************)
(* Claims about the wrapper files (checked under Spec).                    *)
(***************************************************************************)
\* C23: wrapper and map are paired.  Whenever createTestWrapper and
\* cleanupWrappers are not in progress, a wrapper file exists in the
\* wrapper directory if and only if its source map exists beside it.
C23_WrapperAndMapPaired ==
  pc \in {"loop", "rejected", "returned"} =>
    \A base \in BaseNames :
      WrapperPath(base) \in disk <=> SourceMapPath(WrapperPath(base)) \in disk

\* the entries of options.files are distinct originals: entry j is the file
\* named files[j] of a directory of its own
Original(j) == <<j, files[j]>>

\* the original the wrapper file at path delegates to: writeFile replaces
\* the content, so it is the original of the last createTestWrapper call
\* that wrote path
DelegateOf(path) ==
  Original(CHOOSE k \in 1..(idx - 1) :
             /\ WrapperPath(files[k]) = path
             /\ \A m \in 1..(idx - 1) : WrapperPath(files[m]) = path => m <= k)

\* C27: one wrapper per original file.  After a successful batch there are
\* as many wrapper files as originals, and the wrapper created for each
\* original delegates to that original, also when two originals share a
\* base name.
C27_OneWrapperPerOriginal ==
  pc = "returned" =>
    /\ Cardinality({wrapperPaths[j] : j \in DOMAIN wrapperPaths}) = Len(files)
    /\ \A j \in DOMAIN wrapperPaths : DelegateOf(wrapperPaths[j]) = Original(j)

\* C24: reporter selection in wrapper mode.  Once the call has returned,
\* the test stream (the one main listens to) was composed with the reporter
\* named by options.reporter when that name is one of dot, junit, spec and
\* tap, and with nothing for any other name.
C24_ReporterSelection ==
  pc = "returned" =>
    /\ listening
    /\ reporter \in {"dot", "junit", "spec", "tap"} => composed = reporter
    /\ reporter \notin {"dot", "junit", "spec", "tap"} => composed = "none"

(***************************************************************************)
(* main's command line and importHook.                                     *)
(***************************************************************************)
CliInit ==
  IdleWrap /\ InitMain /\ IdleHooks /\ IdleLoad /\ IdleStack /\ IdleLoader
    /\ InitCli /\ IdleImport
SpecCli == CliInit /\ [][NextCli]_vars

ImportInit ==
  IdleWrap /\ InitMain /\ IdleHooks /\ IdleLoad /\ IdleStack /\ IdleLoader
    /\ IdleCli /\ InitImport
SpecImport == ImportInit /\ [][NextImport]_vars

\* a command line that names a test file and, besides it, nothing but
\* --isolate and --verbose
PlainRequest ==
  /\ \E i \in DOMAIN argv : argv[i] = "a.test.js"
  /\ \A i \in DOMAIN argv : argv[i] \in {"a.test.js", "--isolate", "--verbose"}

\* C25: strategy selection from the command line.  Once main has dealt with
\* a command line that names a test file, it has started the run under full
\* compartment isolation (the load interceptor in a spawned process) when
\* --isolate was given and the default strategy (the wrapper files)
\* otherwise.
C25_StrategyFromCommandLine ==
  (cpc \in {"threw", "exited", "running"} /\ PlainRequest) =>
    cStrategy = IF \E i \in DOMAIN argv : argv[i] = "--isolate"
                THEN "loader-hooks"
                ELSE "wrapper"

\* C30: the import hook declares what it defines.  The record importHook
\* returned is frozen and declares no imports, and every property name its
\* execute has written onto the exports object is in its exports list.
C30_DeclaresWhatItDefines ==
  ipc = "executed" =>
    /\ iRecord.frozen
    /\ iRecord.imports = <<>>
    /\ iWritten \subseteq {iRecord.exports[i] : i \in DOMAIN iRecord.exports}

====
